---- MODULE Spec2Model ----
(***************************************************************************)
(* Lupine Engine build-environment setup (scripts/setup_build_environment  *)
(* .py): one run of main() as a state machine.  The program is sequential, *)
(* except for the vcpkg worker pool; the nondeterminism is the environment *)
(* (exit codes of the commands, outcomes of the downloads, what is found   *)
(* in PATH and on disk).                                                   *)
(***************************************************************************)
EXTENDS Integers, Sequences, FiniteSets, TLC

\* ----------------------------------------------------------------- bounds
\* The package lists of the source are long; the run installs a prefix of each.
NumEssential == 2
NumOptional == 1
NumApt == 3
NumBrew == 1
NumPip == 1
\* Library files of one platform archive (a prefix of essential_libs).
NumLibs == 2
\* Backend invocations that fail in one run (an archive that is not the one asked for
\* counts as one), and tools missing from PATH at verification.
MaxFailures == 2
MaxMissing == 1
\* Packaging: the entries of essential_libraries, the file names lib/ is drawn from,
\* the files of a tree that cannot be read.
NumCatalog == 3
NumLibFiles == 3
MaxUnreadable == 1

\* ------------------------------------------------------ program constants
\* chunk_size of _install_linux_dependencies (10 in the source), scaled with NumApt.
chunk_size == 2
\* max_workers = min(2, len(packages)) of _install_vcpkg_packages_parallel.
max_workers_limit == 2

Take(s, n) == SubSeq(s, 1, IF n < Len(s) THEN n ELSE Len(s))
Range(s) == {s[i] : i \in 1..Len(s)}
Min(a, b) == IF a < b THEN a ELSE b

\* ---------------------------------------------------------------- catalog
\* essential_dependencies with a package listed twice.
essential_dependencies_Repeated == Take(<<"sdl2", "sdl2", "glm", "nlohmann-json", "glad", "lua", "pybind11">>, NumEssential)

essential_dependencies == Take(<<"sdl2", "glm", "nlohmann-json", "glad", "lua", "pybind11">>, NumEssential)

optional_dependencies == Take(<<"libjpeg-turbo", "freetype", "sqlite3", "pugixml", "libogg", "libvorbis", "libflac", "opus", "mpg123", "bzip2", "liblzma", "lz4", "zstd">>, NumOptional)

all_deps == Take(<<"build-essential", "cmake", "pkg-config", "git", "python3-dev", "python3-pip", "ninja-build", "libsdl2-dev", "libsdl2-image-dev", "libsdl2-ttf-dev", "libsdl2-mixer-dev", "libassimp-dev", "libbullet-dev", "liblua5.4-dev", "libyaml-cpp-dev", "libspdlog-dev", "libpng-dev", "libjpeg-dev", "libfreetype-dev", "zlib1g-dev", "libssl-dev", "libsqlite3-dev", "libpugixml-dev", "libogg-dev", "libvorbis-dev", "libflac-dev", "libopus-dev", "libmpg123-dev", "libsndfile1-dev", "libwavpack-dev", "nlohmann-json3-dev", "pybind11-dev", "libglad-dev", "libbz2-dev", "liblzma-dev", "liblz4-dev", "libzstd-dev", "libx11-dev", "libxext-dev", "libxrender-dev", "libgl1-mesa-dev", "libasound2-dev", "libpulse-dev", "libglfw3-dev", "libglm-dev">>, NumApt)

all_dependencies == Take(<<"cmake", "pkg-config", "python3", "ninja", "sdl2", "sdl2_image", "sdl2_ttf", "sdl2_mixer", "assimp", "bullet", "lua", "yaml-cpp", "spdlog", "libpng", "jpeg", "freetype", "zlib", "openssl", "glm", "nlohmann-json", "pybind11", "libogg", "libvorbis", "flac", "opus", "mpg123", "libsndfile", "wavpack", "bzip2", "xz", "lz4", "zstd", "glfw">>, NumBrew)

python_packages == Take(<<"pybind11", "numpy", "requests", "cmake">>, NumPip)

essential_libs == Take(<<"SDL2", "glad", "lua", "yaml-cpp">>, NumLibs)

\* target_platforms of setup_cross_compilation_libraries, in dict order.
target_platforms == <<"Windows", "Linux", "Mac-OSX", "Mac-ARM64">>

Platforms == Range(target_platforms)

\* What platform.system()/platform.machine() can answer, named by the platform
\* directory; "Other" is any system that is not windows, darwin or linux.
Hosts == Platforms \cup {"Other"}

detect_system(h) ==
    CASE h = "Windows" -> [system |-> "windows", platform_dir |-> "Windows", triplet |-> "x64-windows-static", package_manager |-> "vcpkg"]
      [] h = "Mac-ARM64" -> [system |-> "macos", platform_dir |-> "Mac-ARM64", triplet |-> "arm64-osx", package_manager |-> "brew"]
      [] h = "Mac-OSX" -> [system |-> "macos", platform_dir |-> "Mac-OSX", triplet |-> "x64-osx", package_manager |-> "brew"]
      [] h = "Linux" -> [system |-> "linux", platform_dir |-> "Linux", triplet |-> "x64-linux", package_manager |-> "apt"]
      [] OTHER -> [system |-> "unsupported", platform_dir |-> "", triplet |-> "", package_manager |-> ""]

\* The library packages the host's install step is responsible for.
LibReqs(h) ==
    CASE detect_system(h).system = "windows" -> Range(essential_dependencies) \cup Range(optional_dependencies)
      [] detect_system(h).system = "macos" -> Range(all_dependencies)
      [] detect_system(h).system = "linux" -> Range(all_deps)
      [] OTHER -> {}

Packages ==
    Range(essential_dependencies) \cup Range(optional_dependencies) \cup Range(all_deps)
        \cup Range(all_dependencies) \cup Range(python_packages) \cup {"qtbase", "qt6", "Qt", "Qt5", "cmake", "git"}

Targets == Packages \cup Platforms

Backends == {"fetch", "vcpkg", "apt", "brew", "pip", "choco", "aqt"}

\* One acquisition attempt: the backend, whether it succeeded (exit code 0, archive
\* extracted), and whether the program took it for a success.
Attempt(b, ok, rep) == [b |-> b, ok |-> ok, rep |-> rep]

\* ------------------------------------------------------ packaging catalog
\* self.platforms of PrecompiledLibraryBuilder: the triplet of each platform.
platforms ==
    [p \in Platforms |->
        CASE p = "Windows" -> "x64-windows-static"
          [] p = "Linux" -> "x64-linux"
          [] p = "Mac-OSX" -> "x64-osx"
          [] p = "Mac-ARM64" -> "arm64-osx"]

\* self.essential_libraries with its first entry listed twice.
essential_libraries_Repeated == Take(<<"SDL2", "SDL2", "SDL2-image", "SDL2-mixer", "SDL2-ttf", "Assimp">>, NumCatalog)

\* self.essential_libraries, the first NumCatalog of its 32 entries.
essential_libraries == Take(<<"SDL2", "SDL2-image", "SDL2-mixer", "SDL2-ttf", "Assimp", "Box2D", "Bullet3", "Lua", "Yaml-cpp", "Pugixml", "glad", "spdlog", "nlohmann-json", "minizip", "libstk", "libvorbis", "libogg", "libflac", "mp3lame", "mpg123", "opus", "bzip2", "lz4", "wavpack", "sqlite3", "openssl", "glm", "boost-uuid", "stb", "libsndfile", "qtbase", "pybind11">>, NumCatalog)

\* lib_patterns of _check_essential_libraries: the name patterns of a library.
lib_patterns(lib) ==
    CASE lib = "SDL2" -> <<"SDL2", "sdl2">>
      [] lib = "SDL2-image" -> <<"SDL2_image", "sdl2_image", "SDL2-image">>
      [] lib = "SDL2-mixer" -> <<"SDL2_mixer", "sdl2_mixer", "SDL2-mixer">>
      [] lib = "SDL2-ttf" -> <<"SDL2_ttf", "sdl2_ttf", "SDL2-ttf">>
      [] lib = "Assimp" -> <<"assimp", "Assimp">>
      [] lib = "Box2D" -> <<"Box2D", "box2d">>
      [] lib = "Bullet3" -> <<"Bullet3", "bullet", "BulletCollision", "BulletDynamics">>
      [] lib = "Lua" -> <<"lua", "lua5", "lua54">>
      [] lib = "Yaml-cpp" -> <<"yaml-cpp", "yamlcpp">>
      [] lib = "Pugixml" -> <<"pugixml">>
      [] lib = "glad" -> <<"glad">>
      [] lib = "spdlog" -> <<"spdlog">>
      [] lib = "nlohmann-json" -> <<"nlohmann_json", "nlohmann-json">>
      [] lib = "minizip" -> <<"minizip">>
      [] lib = "libstk" -> <<"stk", "libstk">>
      [] lib = "libvorbis" -> <<"vorbis", "libvorbis">>
      [] lib = "libogg" -> <<"ogg", "libogg">>
      [] lib = "libflac" -> <<"flac", "libflac", "FLAC">>
      [] lib = "mp3lame" -> <<"mp3lame", "lame">>
      [] lib = "mpg123" -> <<"mpg123">>
      [] lib = "opus" -> <<"opus">>
      [] lib = "bzip2" -> <<"bz2", "bzip2">>
      [] lib = "lz4" -> <<"lz4">>
      [] lib = "wavpack" -> <<"wavpack">>
      [] lib = "sqlite3" -> <<"sqlite3", "sqlite">>
      [] lib = "openssl" -> <<"ssl", "crypto", "openssl">>
      [] lib = "glm" -> <<"glm">>
      [] lib = "boost-uuid" -> <<"boost_uuid", "boost-uuid">>
      [] lib = "stb" -> <<"stb">>
      [] lib = "libsndfile" -> <<"sndfile", "libsndfile">>
      [] lib = "qtbase" -> <<"Qt5Core", "Qt6Core", "qtbase">>
      [] lib = "pybind11" -> <<"pybind11">>
      [] OTHER -> <<lib>>

\* The files a platform tree is drawn from: <<directory, name>>, the directory being
\* "lib", "include" or "" (the platform directory itself).
LibFileNames == Range(Take(<<"libSDL2.a", "SDL2_image.lib", "libz.a", "libsdl2_mixer.so", "libSDL2_ttf.a">>, NumLibFiles))

TreeFiles == {<<"lib", f>> : f \in LibFileNames} \cup {<<"include", "SDL.h">>, <<"", "README">>}

\* The patterns of lib_patterns that occur in a file name (case matters, as in a
\* glob on a POSIX file system).
Substrings(f) ==
    CASE f = "libSDL2.a" -> {"SDL2"}
      [] f = "SDL2_image.lib" -> {"SDL2", "SDL2_image"}
      [] f = "libsdl2_mixer.so" -> {"sdl2", "sdl2_mixer"}
      [] f = "libSDL2_ttf.a" -> {"SDL2", "SDL2_ttf"}
      [] OTHER -> {}

\* lib_dir.glob(f"*{pattern}*") over the names in lib/.
glob(names, pattern) == {f \in names : pattern \in Substrings(f)}

\* A file name as <<prefix, stem, suffix>>.
Shape(f) ==
    CASE f = "libSDL2.a" -> <<"lib", "SDL2", ".a">>
      [] f = "SDL2_image.lib" -> <<"", "SDL2_image", ".lib">>
      [] f = "libz.a" -> <<"lib", "z", ".a">>
      [] f = "libsdl2_mixer.so" -> <<"lib", "sdl2_mixer", ".so">>
      [] f = "libSDL2_ttf.a" -> <<"lib", "SDL2_ttf", ".a">>
      [] OTHER -> <<"", f, "">>

\* search_patterns of _check_essential_libraries: the file names a platform's
\* convention gives a pattern, as <<prefix, stem, suffix>>.
search_patterns(p, pattern) ==
    IF p = "Windows"
       THEN {<<"", pattern, ".lib">>, <<"lib", pattern, ".lib">>, <<"", pattern, "-static.lib">>,
             <<"", pattern, "d.lib">>, <<"lib", pattern, "d.lib">>}
       ELSE {<<"lib", pattern, ".a">>, <<"", pattern, ".a">>, <<"lib", pattern, "-static.a">>,
             <<"lib", pattern, ".so">>, <<"", pattern, ".so">>}

VARIABLES
    host,           \* the system the run is on
    force, no_qt, dev_only, verify_only,    \* the command line
    pc,             \* where main() is
    i, j,           \* loop indexes (chunk start / package in list)
    essential,      \* essential_dependencies, which the Qt fallback appends to
    qtsite,         \* which caller the static Qt install returns to
    vcpkgDir, vcpkgExe,     \* thirdparty/vcpkg and vcpkg.exe exist
    qt,             \* Qt on disk: "none", "system" (what _detect_existing_qt finds), "aqt" (thirdparty/Qt by aqtinstall)
    emsdk,          \* thirdparty/emsdk exists
    tree,           \* per platform directory, the library files in lib/
    tree0,          \* tree as it was when the run started
    attempts,       \* per requirement, the acquisition attempts in order
    poolQueue,      \* packages submitted to the pool that no worker has taken yet
    poolRunning,    \* the installs running: <<position in the submitted list, package>>
    completed,      \* the counter of the as_completed loop
    failures,       \* failed backend invocations so far
    found, missing_deps, verdict,   \* verify_dependencies
    abortCause,     \* why the process ended early
    dirs, dirs0,    \* the directories that exist: "thirdparty" and the platform directories in it; dirs0 at the start
    manifest,       \* thirdparty/cross_compilation_manifest.json: per platform directory its entry, once written
    \* build_precompiled_libs.py and test_precompiled_libs.py
    bpc,            \* where the packaging of one platform is
    platform,       \* the platform build_platform_package is called for
    thirdparty_exists,  \* the builder's thirdparty directory exists
    platform_exists,    \* thirdparty/<platform> exists
    tree_files,     \* the files of thirdparty/<platform>: <<directory, name>>
    unreadable,     \* the files of the tree zipf.write raises on
    package,        \* precompiled_packages/lupine-libs-<triplet>.zip
    info_files,     \* the sidecars written: lupine-libs-<triplet>.json
    success,        \* what build_platform_package returned ("raise": an exception left it)
    missing_libs,   \* what _check_essential_libraries returned
    test_result,    \* what test_package returned
    bi,             \* build_all_packages: the position of the loop in self.platforms (0: not running)
    successful_builds, failed_builds,   \* its two lists
    all_result,     \* what build_all_packages returned
    master,         \* precompiled_packages/manifest.json
    outcome         \* per platform, how its build_platform_package call ended

\* the state of the packaging
builder == <<bpc, platform, thirdparty_exists, platform_exists, tree_files, unreadable, package, info_files, success, missing_libs, test_result, bi, successful_builds, failed_builds, all_result, master, outcome>>

vars == <<host, force, no_qt, dev_only, verify_only, tree0, pc, i, j, essential, qtsite, vcpkgDir, vcpkgExe, qt, emsdk, tree, attempts, poolQueue, poolRunning, completed, failures, found, missing_deps, verdict, abortCause, dirs, dirs0, manifest, builder>>

allbuild == <<bi, successful_builds, failed_builds, all_result, master, outcome>>
flags == <<host, force, no_qt, dev_only, verify_only, tree0, dirs0>>
disk == <<vcpkgDir, vcpkgExe, qt, tree>>
pool == <<poolQueue, poolRunning, completed>>
report == <<found, missing_deps, verdict>>

sys == detect_system(host).system
platform_dir == detect_system(host).platform_dir

\* No cross_compilation_manifest.json yet.
NoManifest == [written |-> FALSE, platforms |-> <<>>]

\* No manifest.json yet.
NoMaster == [written |-> FALSE, available_platforms |-> <<>>, packages |-> <<>>]

\* build_all_packages is not running.
AllIdle ==
    /\ bi = 0
    /\ successful_builds = <<>>
    /\ failed_builds = <<>>
    /\ all_result = "none"
    /\ master = NoMaster
    /\ outcome = [p \in Platforms |-> "none"]

\* No package file.
NoPackage == [exists |-> FALSE, size |-> 0, valid |-> FALSE, entries |-> {}]

\* The packaging is not part of a run of setup_build_environment.py.
BuilderIdle ==
    /\ bpc = "idle"
    /\ platform = "Linux"
    /\ thirdparty_exists = TRUE
    /\ platform_exists = TRUE
    /\ tree_files = {}
    /\ unreadable = {}
    /\ package = NoPackage
    /\ info_files = {}
    /\ success = "none"
    /\ missing_libs = <<>>
    /\ test_result = "none"
    /\ AllIdle

\* The dependencies verify_dependencies looks for on this host.
Deps == {"cl", "cmake", "git", "gcc", "g++", "vcpkg", "brew", "apt", "Qt"}

Init ==
    /\ host \in Hosts
    /\ force \in BOOLEAN
    /\ no_qt \in BOOLEAN
    /\ dev_only \in BOOLEAN
    /\ verify_only \in BOOLEAN
    /\ pc = "start"
    /\ i = 1
    /\ j = 1
    /\ essential = essential_dependencies
    /\ qtsite = "none"
    /\ vcpkgDir \in BOOLEAN
    /\ vcpkgExe \in BOOLEAN
    /\ vcpkgExe => vcpkgDir
    /\ (host # "Windows") => ~vcpkgDir
    /\ qt \in {"none", "system"}
    /\ emsdk \in BOOLEAN
    /\ (dev_only \/ verify_only) => ~emsdk
    /\ \E present \in {{}, Platforms} :
          /\ tree = [p \in Platforms |-> IF p \in present THEN Range(essential_libs) ELSE {}]
          /\ dirs = IF present = {} THEN {} ELSE present \cup {"thirdparty"}
    /\ tree0 = tree
    /\ dirs0 = dirs
    /\ manifest = NoManifest
    /\ BuilderIdle
    /\ attempts = [t \in Targets |-> <<>>]
    /\ poolQueue = <<>>
    /\ poolRunning = {}
    /\ completed = 0
    /\ failures = 0
    /\ found = [d \in Deps |-> FALSE]
    /\ missing_deps = <<>>
    /\ verdict = "none"
    /\ abortCause = "none"

\* ---------------------------------------------------------------- helpers
CanFail == failures < MaxFailures

Log(t, a) == [attempts EXCEPT ![t] = Append(@, a)]

LogAll(ts, a) == [t \in Targets |-> IF t \in ts THEN Append(attempts[t], a) ELSE attempts[t]]

\* sys.exit(1) of _run_command, or an exception, that nothing on the way up catches.
Abort(cause) ==
    /\ pc' = "aborted"
    /\ abortCause' = cause

\* __init__ with the two mkdir calls ahead of _detect_system.
init_mkdir_BeforeDetect(d) == d \cup {"thirdparty"}

\* The directories after __init__: _detect_system comes first and raises on an
\* unsupported system; then thirdparty/ and the host's platform directory are made.
init_mkdir(d) == IF sys = "unsupported" THEN d ELSE d \cup {"thirdparty", platform_dir}

\* __init__ and the head of main(): _detect_system raises RuntimeError on an
\* unsupported system, before the try block of main().
Construct ==
    /\ pc = "start"
    /\ dirs' = init_mkdir(dirs)
    /\ IF sys = "unsupported"
          THEN Abort("config")
          ELSE /\ pc' = IF verify_only THEN "verify" ELSE "install"
               /\ UNCHANGED abortCause
    /\ UNCHANGED <<flags, manifest, builder, i, j, essential, qtsite, disk, emsdk, attempts, pool, failures, report>>

\* install_system_dependencies: dispatch on the system.
install_system_dependencies ==
    /\ pc = "install"
    /\ pc' = CASE sys = "windows" -> "w_cmake"
               [] sys = "macos" -> "m_brew"
               [] sys = "linux" -> "l_update"
    /\ UNCHANGED <<flags, dirs, manifest, builder, i, j, essential, qtsite, disk, emsdk, attempts, pool, failures, report, abortCause>>

\* --------------------------------------------------------------- Linux
\* Chunk with the end of the slice one too far.
Chunk_Overlap(k) == SubSeq(all_deps, k, Min(k + chunk_size, Len(all_deps)))

\* chunk = all_deps[i:i + chunk_size]
Chunk(k) == SubSeq(all_deps, k, Min(k + chunk_size - 1, Len(all_deps)))

\* _install_linux_dependencies: 'sudo apt update' through _run_command(check=True),
\* outside any try: a failure is sys.exit(1).
l_update ==
    /\ pc = "l_update"
    /\ \/ /\ pc' = "l_chunk"
          /\ i' = 1
          /\ UNCHANGED <<failures, abortCause>>
       \/ /\ CanFail
          /\ failures' = failures + 1
          /\ Abort("apt update")
          /\ UNCHANGED i
    /\ UNCHANGED <<flags, dirs, manifest, builder, j, essential, qtsite, disk, emsdk, attempts, pool, report>>

\* for i in range(0, len(all_deps), chunk_size): apt install of the whole chunk; the
\* bare except catches the SystemExit of a failed install.
l_chunk ==
    /\ pc = "l_chunk"
    /\ IF i > Len(all_deps)
          THEN /\ pc' = "pip"
               /\ UNCHANGED <<i, j, attempts, failures>>
          ELSE \/ /\ attempts' = LogAll(Range(Chunk(i)), Attempt("apt", TRUE, TRUE))
                  /\ i' = i + chunk_size
                  /\ UNCHANGED <<pc, j, failures>>
               \/ /\ CanFail
                  /\ failures' = failures + 1
                  /\ attempts' = LogAll(Range(Chunk(i)), Attempt("apt", FALSE, FALSE))
                  /\ pc' = "l_indiv"
                  /\ j' = 1
                  /\ UNCHANGED i
    /\ UNCHANGED <<flags, dirs, manifest, builder, essential, qtsite, disk, emsdk, pool, report, abortCause>>

\* for dep in chunk: apt install of the single package, failures caught.
l_indiv ==
    /\ pc = "l_indiv"
    /\ IF j > Len(Chunk(i))
          THEN /\ pc' = "l_chunk"
               /\ i' = i + chunk_size
               /\ UNCHANGED <<j, attempts, failures>>
          ELSE /\ \E ok \in BOOLEAN :
                    /\ ok \/ CanFail
                    /\ failures' = IF ok THEN failures ELSE failures + 1
                    /\ attempts' = Log(Chunk(i)[j], Attempt("apt", ok, ok))
               /\ j' = j + 1
               /\ UNCHANGED <<pc, i>>
    /\ UNCHANGED <<flags, dirs, manifest, builder, essential, qtsite, disk, emsdk, pool, report, abortCause>>

\* ----------------------------------------------------------------- pip
AfterPip == IF sys = "macos" THEN "m_qt" ELSE "l_qt"

\* _install_python_dependencies: the first of python3, python, py found in PATH;
\* none found: return.
pip_python ==
    /\ pc = "pip"
    /\ \E python_cmd \in BOOLEAN :
          pc' = IF python_cmd THEN "pip_user" ELSE AfterPip
    /\ i' = 1
    /\ UNCHANGED <<flags, dirs, manifest, builder, j, essential, qtsite, disk, emsdk, attempts, pool, failures, report, abortCause>>

\* pip install --user package
pip_user ==
    /\ pc = "pip_user"
    /\ IF i > Len(python_packages)
          THEN /\ pc' = AfterPip
               /\ UNCHANGED <<i, attempts, failures>>
          ELSE \/ /\ attempts' = Log(python_packages[i], Attempt("pip", TRUE, TRUE))
                  /\ i' = i + 1
                  /\ UNCHANGED <<pc, failures>>
               \/ /\ CanFail
                  /\ failures' = failures + 1
                  /\ attempts' = Log(python_packages[i], Attempt("pip", FALSE, FALSE))
                  /\ pc' = "pip_plain"
                  /\ UNCHANGED i
    /\ UNCHANGED <<flags, dirs, manifest, builder, j, essential, qtsite, disk, emsdk, pool, report, abortCause>>

\* the retry without --user
pip_plain ==
    /\ pc = "pip_plain"
    /\ \E ok \in BOOLEAN :
          /\ ok \/ CanFail
          /\ failures' = IF ok THEN failures ELSE failures + 1
          /\ attempts' = Log(python_packages[i], Attempt("pip", ok, ok))
    /\ i' = i + 1
    /\ pc' = "pip_user"
    /\ UNCHANGED <<flags, dirs, manifest, builder, j, essential, qtsite, disk, emsdk, pool, report, abortCause>>

\* _install_static_qt_linux.  The SystemExit of a failed command is no Exception:
\* 'except Exception' lets it through; only an error raised by subprocess.run
\* itself (an OSError that is no FileNotFoundError) reaches the Qt5 fallback.
l_qt ==
    /\ pc = "l_qt"
    /\ IF no_qt \/ (qt = "system" /\ ~force)
          THEN /\ pc' = "setup_qt"
               /\ UNCHANGED <<qt, attempts, failures, abortCause>>
          ELSE \/ /\ qt' = "system"
                  /\ attempts' = Log("Qt", Attempt("apt", TRUE, TRUE))
                  /\ pc' = "setup_qt"
                  /\ UNCHANGED <<failures, abortCause>>
               \/ /\ CanFail
                  /\ failures' = failures + 1
                  /\ attempts' = Log("Qt", Attempt("apt", FALSE, FALSE))
                  /\ \/ Abort("apt install qt6")
                     \/ pc' = "l_qt5" /\ UNCHANGED abortCause
                  /\ UNCHANGED qt
    /\ UNCHANGED <<flags, dirs, manifest, builder, i, j, essential, qtsite, vcpkgDir, vcpkgExe, tree, emsdk, pool, report>>

\* the Qt5 packages, inside the handler of the Qt6 failure
l_qt5 ==
    /\ pc = "l_qt5"
    /\ \/ /\ qt' = "system"
          /\ attempts' = Log("Qt5", Attempt("apt", TRUE, TRUE))
          /\ pc' = "setup_qt"
          /\ UNCHANGED <<failures, abortCause>>
       \/ /\ CanFail
          /\ failures' = failures + 1
          /\ attempts' = Log("Qt5", Attempt("apt", FALSE, FALSE))
          /\ \/ Abort("apt install qt5")
             \/ pc' = "setup_qt" /\ UNCHANGED abortCause
          /\ UNCHANGED qt
    /\ UNCHANGED <<flags, dirs, manifest, builder, i, j, essential, qtsite, vcpkgDir, vcpkgExe, tree, emsdk, pool, report>>

\* -------------------------------------------------------------- Windows
\* _install_windows_dependencies: cmake, then git, through chocolatey when the tool
\* is not in PATH and choco is; the bare except catches a failed install.
w_tool ==
    /\ pc \in {"w_cmake", "w_git"}
    /\ pc' = IF pc = "w_cmake" THEN "w_git" ELSE "w_vcpkg"
    /\ \/ UNCHANGED <<attempts, failures>>
       \/ \E ok \in BOOLEAN :
             /\ ok \/ CanFail
             /\ failures' = IF ok THEN failures ELSE failures + 1
             /\ attempts' = Log(IF pc = "w_cmake" THEN "cmake" ELSE "git", Attempt("choco", ok, ok))
    /\ UNCHANGED <<flags, dirs, manifest, builder, i, j, essential, qtsite, disk, emsdk, pool, report, abortCause>>

\* 'if not vcpkg_dir.exists() or self.force': rmtree of an existing directory, where
\* a PermissionError is caught and leaves the directory in place.
w_vcpkg ==
    /\ pc = "w_vcpkg"
    /\ IF vcpkgDir /\ ~force
          THEN /\ pc' = "w_fetch"
               /\ UNCHANGED <<vcpkgDir, vcpkgExe, failures>>
          ELSE /\ pc' = "w_clone"
               /\ \/ /\ vcpkgDir' = FALSE
                     /\ vcpkgExe' = FALSE
                     /\ UNCHANGED failures
                  \/ /\ vcpkgDir
                     /\ CanFail
                     /\ failures' = failures + 1
                     /\ UNCHANGED <<vcpkgDir, vcpkgExe>>
    /\ UNCHANGED <<flags, dirs, manifest, builder, i, j, essential, qtsite, qt, tree, emsdk, attempts, pool, report, abortCause>>

\* git clone of vcpkg, then bootstrap-vcpkg.bat, inside 'try ... except Exception':
\* the SystemExit of a failed command passes that handler and ends the process; an
\* error raised by subprocess.run itself is caught ("Continuing without vcpkg").
\* git refuses to clone into a directory that is still there.
w_clone ==
    /\ pc = "w_clone"
    /\ \/ /\ ~vcpkgDir
          /\ vcpkgDir' = TRUE
          /\ pc' = "w_bootstrap"
          /\ UNCHANGED <<failures, abortCause>>
       \/ /\ vcpkgDir
          /\ Abort("git clone vcpkg")
          /\ UNCHANGED <<vcpkgDir, failures>>
       \/ /\ ~vcpkgDir
          /\ CanFail
          /\ failures' = failures + 1
          /\ \/ Abort("git clone vcpkg")
             \/ pc' = "w_fetch" /\ UNCHANGED abortCause
          /\ UNCHANGED vcpkgDir
    /\ UNCHANGED <<flags, dirs, manifest, builder, i, j, essential, qtsite, vcpkgExe, qt, tree, emsdk, attempts, pool, report>>

w_bootstrap ==
    /\ pc = "w_bootstrap"
    /\ \/ /\ vcpkgExe' = TRUE
          /\ pc' = "w_fetch"
          /\ UNCHANGED <<failures, abortCause>>
       \/ /\ CanFail
          /\ failures' = failures + 1
          /\ \/ Abort("bootstrap-vcpkg")
             \/ pc' = "w_fetch" /\ UNCHANGED abortCause
          /\ UNCHANGED vcpkgExe
    /\ UNCHANGED <<flags, dirs, manifest, builder, i, j, essential, qtsite, vcpkgDir, qt, tree, emsdk, attempts, pool, report>>

\* ------------------------------------------------------- after the install
\* setup_qt: nothing with --no-qt; on Linux _setup_qt_linux only links directories.
setup_qt ==
    /\ pc = "setup_qt"
    /\ IF no_qt \/ sys = "linux"
          THEN pc' = "emscripten" /\ UNCHANGED qtsite
          ELSE pc' = "qt_static" /\ qtsite' = "setup"
    /\ UNCHANGED <<flags, dirs, manifest, builder, i, j, essential, disk, emsdk, attempts, pool, failures, report, abortCause>>

\* setup_emscripten: skipped with --dev-only; otherwise, when thirdparty/emsdk is
\* absent or --force is given, rmtree and git clone (check=True, no handler).
setup_emscripten ==
    /\ pc = "emscripten"
    /\ IF dev_only \/ (emsdk /\ ~force)
          THEN /\ pc' = "cross"
               /\ UNCHANGED <<emsdk, failures, abortCause>>
          ELSE \/ /\ emsdk' = TRUE
                  /\ pc' = "em_install"
                  /\ UNCHANGED <<failures, abortCause>>
               \/ /\ CanFail
                  /\ failures' = failures + 1
                  /\ emsdk' = FALSE
                  /\ Abort("git clone emsdk")
    /\ i' = 1
    /\ UNCHANGED <<flags, dirs, manifest, builder, j, essential, qtsite, disk, attempts, pool, report>>

\* emsdk install latest, emsdk activate latest
em_install ==
    /\ pc \in {"em_install", "em_activate"}
    /\ \/ /\ pc' = IF pc = "em_install" THEN "em_activate" ELSE "cross"
          /\ UNCHANGED <<failures, abortCause>>
       \/ /\ CanFail
          /\ failures' = failures + 1
          /\ Abort(IF pc = "em_install" THEN "emsdk install" ELSE "emsdk activate")
    /\ UNCHANGED <<flags, dirs, manifest, builder, i, j, essential, qtsite, disk, emsdk, attempts, pool, report>>

\* ------------------------------------------------------- precompiled fetch
\* The directories the entries of the file downloaded for platform p can name: the
\* archives drawn are that of p and that of one other platform.
ArchiveRoots(p) == {p, IF p = "Linux" THEN "Windows" ELSE "Linux"}

\* What one call of _download_precompiled_libraries for platform p can meet, with the
\* number of archive entries extractall has written when the call ends and the
\* directory of thirdparty/ the entries of the archive name (extractall follows the
\* names in the archive, whichever platform it was downloaded for):
\* "HTTPError", "URLError": urlopen raises (an error status, no connection, the 30 s
\* timeout); "status": the response is not 200; "empty": the saved file is empty or
\* missing; <<"corrupt", k>>: zipfile raises after k entries were written (k = 0: the
\* archive does not open); "unlink": everything is extracted and the removal of the
\* downloaded archive raises; "ok": nothing goes wrong.
FetchOutcomes(p) ==
    {<<"ok", Len(essential_libs), q>> : q \in ArchiveRoots(p)}
        \cup {<<"unlink", Len(essential_libs), p>>, <<"HTTPError", 0, p>>, <<"URLError", 0, p>>, <<"status", 0, p>>, <<"empty", 0, p>>}
        \cup {<<"corrupt", k, p>> : k \in 0..(Len(essential_libs) - 1)}

\* _download_precompiled_libraries with 'except Exception' left out.
download_precompiled_libraries_NoCatchAll(o) ==
    CASE o[1] \in {"HTTPError", "URLError", "status", "empty"} -> "False"
      [] o[1] \in {"corrupt", "unlink"} -> "raise"
      [] OTHER -> "True"

\* What _download_precompiled_libraries does with the outcome: the value it returns,
\* or "raise" when an exception leaves it.
download_precompiled_libraries(o) ==
    CASE o[1] = "status" -> "False"
      [] o[1] = "empty" -> "False"
      [] o[1] = "HTTPError" -> "False"
      [] o[1] = "URLError" -> "False"
      [] o[1] \in {"corrupt", "unlink"} -> "False"
      [] OTHER -> "True"

\* extractall(self.thirdparty_dir) of the first k entries of an archive whose
\* entries are named q/lib/...
Extract(t, q, k) == [t EXCEPT ![q] = @ \cup {essential_libs[x] : x \in 1..k}]

\* The directories extractall makes on the way.
ExtractDirs(q, k) == IF k > 0 THEN {q} ELSE {}

FetchOk(o) == download_precompiled_libraries(o) = "True"

\* The fetch for platform p returned True and the archive was that of p.
Delivered(o, p) == FetchOk(o) /\ o[3] = p

\* An exception out of the download is caught by nothing before main(), whose
\* 'except Exception' prints it and exits.
FetchRaised(o) == download_precompiled_libraries(o) = "raise"

\* the requirements a fetch for platform p is an attempt at
FetchTargets(p) == {p} \cup (IF p = platform_dir THEN LibReqs(host) ELSE {})

\* _platform_libraries_exist
platform_libraries_exist(p) == \A lib \in Range(essential_libs) : lib \in tree[p]

\* _create_cross_compilation_manifest listing only the platforms that have libraries.
create_cross_compilation_manifest_AvailableOnly(d, t) ==
    [written |-> TRUE,
     platforms |-> [p \in {q \in d \cap Platforms : t[q] # {}} |->
                       [available |-> TRUE, library_count |-> Cardinality(t[p]), path |-> p]]]

\* _create_cross_compilation_manifest: an entry for every platform directory that
\* exists, 'available' telling whether it has a lib/ directory, with the number of
\* files in it. (In the layouts of Init and after an extraction, lib/ exists exactly
\* where it holds a file.)
create_cross_compilation_manifest(d, t) ==
    [written |-> TRUE,
     platforms |-> [p \in d \cap Platforms |->
                       IF t[p] # {}
                          THEN [available |-> TRUE, library_count |-> Cardinality(t[p]), path |-> p]
                          ELSE [available |-> FALSE, library_count |-> 0, path |-> p]]]

\* setup_cross_compilation_libraries: for each target platform, make its directory,
\* skip it when its libraries are there, else try the download; then write the
\* manifest.
setup_cross_compilation_libraries ==
    /\ pc = "cross"
    /\ IF i > Len(target_platforms)
          THEN /\ pc' = "cmake_config"
               /\ manifest' = create_cross_compilation_manifest(dirs, tree)
               /\ UNCHANGED <<i, dirs, tree, attempts, failures, abortCause>>
          ELSE /\ i' = i + 1
               /\ UNCHANGED manifest
               /\ IF platform_libraries_exist(target_platforms[i])
                     THEN /\ dirs' = dirs \cup {target_platforms[i]}
                          /\ UNCHANGED <<pc, tree, attempts, failures, abortCause>>
                     ELSE \E o \in FetchOutcomes(target_platforms[i]) :
                            /\ Delivered(o, target_platforms[i]) \/ CanFail
                            /\ failures' = IF Delivered(o, target_platforms[i]) THEN failures ELSE failures + 1
                            /\ tree' = Extract(tree, o[3], o[2])
                            /\ dirs' = dirs \cup {target_platforms[i]} \cup ExtractDirs(o[3], o[2])
                            /\ attempts' = LogAll(FetchTargets(target_platforms[i]), Attempt("fetch", Delivered(o, target_platforms[i]), FetchOk(o)))
                            /\ IF FetchRaised(o)
                                  THEN Abort("download raised")
                                  ELSE UNCHANGED <<pc, abortCause>>
    /\ UNCHANGED <<flags, builder, j, essential, qtsite, vcpkgDir, vcpkgExe, qt, emsdk, pool, report>>

\* The precompiled archive of the host triplet: on success "setup complete", the
\* function returns; otherwise _setup_vcpkg_binary_caching (a cache directory and an
\* environment variable) and the build from source.
\* AfterFetch with the result of the download ignored.
AfterFetch_Ignored(ok) == "w_qt"

\* 'if self._download_precompiled_libraries(...): return'
AfterFetch(ok) == IF ok THEN "setup_qt" ELSE "w_qt"

w_fetch ==
    /\ pc = "w_fetch"
    /\ \E o \in FetchOutcomes(platform_dir) :
          /\ Delivered(o, platform_dir) \/ CanFail
          /\ failures' = IF Delivered(o, platform_dir) THEN failures ELSE failures + 1
          /\ tree' = Extract(tree, o[3], o[2])
          /\ dirs' = dirs \cup ExtractDirs(o[3], o[2])
          /\ attempts' = LogAll(FetchTargets(platform_dir), Attempt("fetch", Delivered(o, platform_dir), FetchOk(o)))
          /\ IF FetchRaised(o)
                THEN Abort("download raised")
                ELSE pc' = AfterFetch(FetchOk(o)) /\ UNCHANGED abortCause
    /\ UNCHANGED <<flags, manifest, builder, i, j, essential, qtsite, vcpkgDir, vcpkgExe, qt, emsdk, pool, report>>

\* 'if not self.no_qt: if not self._install_static_qt_windows(qt_dir)'; the same in
\* _install_macos_dependencies after the Python packages.
install_qt ==
    /\ pc \in {"w_qt", "m_qt"}
    /\ IF no_qt
          THEN pc' = (IF pc = "w_qt" THEN "w_essential" ELSE "setup_qt") /\ UNCHANGED qtsite
          ELSE pc' = "qt_static" /\ qtsite' = "install"
    /\ UNCHANGED <<flags, dirs, manifest, builder, i, j, essential, disk, emsdk, attempts, pool, failures, report, abortCause>>

\* Where _install_static_qt_windows/_macos returns to, with its result.
StaticReturn(result) ==
    CASE qtsite = "setup" -> "emscripten"
      [] result /\ sys = "windows" -> "w_essential"
      [] result -> "setup_qt"
      [] sys = "windows" -> "w_qt_fallback"
      [] OTHER -> "m_qt_fallback"

\* qt_install_dir.exists(): qt_dir/6.9.1/<qt_arch>.  On Windows qt_arch is the aqt
\* command-line name win64_msvc2022_64, not the directory msvc2022_64 aqt creates.
qt_install_dir_exists == qt = "aqt" /\ sys # "windows"

\* _install_static_qt_windows/_macos up to the pip install of aqtinstall: an existing
\* Qt (without --force) is used as it is; a failed pip is sys.exit(1), which
\* 'except Exception' does not catch.
qt_static ==
    /\ pc = "qt_static"
    /\ IF (qt = "system" \/ qt_install_dir_exists) /\ ~force
          THEN /\ pc' = StaticReturn(TRUE)
               /\ UNCHANGED <<failures, abortCause>>
          ELSE \/ /\ pc' = "qt_aqt"
                  /\ UNCHANGED <<failures, abortCause>>
               \/ /\ CanFail
                  /\ failures' = failures + 1
                  /\ \/ Abort("pip install aqtinstall")
                     \/ pc' = StaticReturn(FALSE) /\ UNCHANGED abortCause
    /\ UNCHANGED <<flags, dirs, manifest, builder, i, j, essential, qtsite, disk, emsdk, attempts, pool, report>>

\* qt_dir.mkdir and 'python -m aqt install-qt'
qt_aqt ==
    /\ pc = "qt_aqt"
    /\ \/ /\ qt' = "aqt"
          /\ attempts' = Log("Qt", Attempt("aqt", TRUE, TRUE))
          /\ pc' = StaticReturn(TRUE)
          /\ UNCHANGED <<failures, abortCause>>
       \/ /\ CanFail
          /\ failures' = failures + 1
          /\ attempts' = Log("Qt", Attempt("aqt", FALSE, FALSE))
          /\ \/ Abort("aqt install-qt")
             \/ pc' = StaticReturn(FALSE) /\ UNCHANGED abortCause
          /\ UNCHANGED qt
    /\ UNCHANGED <<flags, dirs, manifest, builder, i, j, essential, qtsite, vcpkgDir, vcpkgExe, tree, emsdk, pool, report>>

\* 'vcpkg install qtbase:triplet' (check=True) in 'try ... except:'; on success
\* essential_dependencies.append('qtbase').  Without vcpkg.exe the command is not
\* found, which _run_command turns into sys.exit(1) as well.
w_qt_fallback ==
    /\ pc = "w_qt_fallback"
    /\ \/ /\ vcpkgExe
          /\ essential' = Append(essential, "qtbase")
          /\ attempts' = Log("qtbase", Attempt("vcpkg", TRUE, TRUE))
          /\ UNCHANGED failures
       \/ /\ vcpkgExe
          /\ CanFail
          /\ failures' = failures + 1
          /\ attempts' = Log("qtbase", Attempt("vcpkg", FALSE, FALSE))
          /\ UNCHANGED essential
       \/ /\ ~vcpkgExe
          /\ attempts' = Log("qtbase", Attempt("vcpkg", FALSE, FALSE))
          /\ UNCHANGED <<essential, failures>>
    /\ pc' = "w_essential"
    /\ UNCHANGED <<flags, dirs, manifest, builder, i, j, qtsite, disk, emsdk, pool, report, abortCause>>

\* _install_vcpkg_packages_parallel: returns at once without vcpkg.exe; otherwise
\* every package is submitted to a ThreadPoolExecutor.  The optional packages are
\* passed only without --dev-only.
\* packages with the list submitted twice.
packages_Twice ==
    IF pc \in {"w_essential", "pool_essential"} THEN essential \o essential ELSE optional_dependencies \o optional_dependencies

\* the list handed to _install_vcpkg_packages_parallel by the call being made
packages == IF pc \in {"w_essential", "pool_essential"} THEN essential ELSE optional_dependencies

\* max_workers without the limit: one worker per package.
max_workers_Unbounded == Len(packages)

max_workers == Min(max_workers_limit, Len(packages))

install_vcpkg_packages_parallel ==
    /\ pc \in {"w_essential", "w_optional"}
    /\ IF ~vcpkgExe \/ (pc = "w_optional" /\ dev_only)
          THEN /\ pc' = IF pc = "w_essential" THEN "w_optional" ELSE "w_integrate"
               /\ UNCHANGED pool
          ELSE /\ pc' = IF pc = "w_essential" THEN "pool_essential" ELSE "pool_optional"
               /\ poolQueue' = packages
               /\ poolRunning' = {}
               /\ completed' = 0
    /\ UNCHANGED <<flags, dirs, manifest, builder, i, j, essential, qtsite, disk, emsdk, attempts, failures, report, abortCause>>

\* A free worker takes the next submitted package.
pool_start ==
    /\ pc \in {"pool_essential", "pool_optional"}
    /\ poolQueue # <<>>
    /\ Cardinality(poolRunning) < max_workers
    /\ poolRunning' = poolRunning \cup {<<Len(packages) - Len(poolQueue) + 1, Head(poolQueue)>>}
    /\ poolQueue' = Tail(poolQueue)
    /\ UNCHANGED <<flags, dirs, manifest, builder, pc, i, j, essential, qtsite, disk, emsdk, attempts, completed, failures, report, abortCause>>

\* What install_package returns for an install that ended with the given result:
\* with check=False subprocess.run raises nothing on a non-zero exit and _run_command
\* returns the captured output, so success is True either way.
install_package_success(ok) == TRUE

\* ResultPackage with the result attributed by the order of completion.
ResultPackage_ByCount(task) == packages[completed + 1]

\* 'package, success, result = future.result()': install_package returns the package
\* it was submitted with.
ResultPackage(task) == task[2]

\* A worker's install ends; as_completed hands the result to the loop, which counts
\* it and prints [OK], [WARN] or [ERROR] by the success flag.
pool_finish ==
    /\ pc \in {"pool_essential", "pool_optional"}
    /\ \E task \in poolRunning, ok \in BOOLEAN :
          /\ ok \/ CanFail
          /\ failures' = IF ok THEN failures ELSE failures + 1
          /\ poolRunning' = poolRunning \ {task}
          /\ attempts' = Log(ResultPackage(task), Attempt("vcpkg", ok, install_package_success(ok)))
    /\ completed' = completed + 1
    /\ UNCHANGED <<flags, dirs, manifest, builder, pc, i, j, essential, qtsite, disk, emsdk, poolQueue, report, abortCause>>

\* The loop over as_completed ending as soon as nothing is left to start.
all_done_QueueOnly == poolQueue = <<>>

\* as_completed has yielded every future, and the executor's __exit__
\* (shutdown(wait=True)) has no task left to wait for.
all_done == poolQueue = <<>> /\ poolRunning = {}

\* The 'with' block ends when every future is done.
pool_exit ==
    /\ pc \in {"pool_essential", "pool_optional"}
    /\ all_done
    /\ pc' = IF pc = "pool_essential" THEN "w_optional" ELSE "w_integrate"
    /\ UNCHANGED <<flags, dirs, manifest, builder, i, j, essential, qtsite, disk, emsdk, attempts, pool, failures, report, abortCause>>

\* 'vcpkg integrate install' with check=False
w_integrate ==
    /\ pc = "w_integrate"
    /\ pc' = "setup_qt"
    /\ UNCHANGED <<flags, dirs, manifest, builder, i, j, essential, qtsite, disk, emsdk, attempts, pool, failures, report, abortCause>>

\* ---------------------------------------------------------------- macOS
\* _install_macos_dependencies: without brew in PATH the Homebrew install script is
\* fetched with urlopen outside any try (a URLError reaches main's handler, which
\* exits) and run unchecked; without /usr/bin/clang the run asks for the Xcode
\* tools and exits.
m_brew ==
    /\ pc = "m_brew"
    /\ \/ /\ pc' = "m_xcode"
          /\ UNCHANGED <<failures, abortCause>>
       \/ /\ CanFail
          /\ failures' = failures + 1
          /\ Abort("homebrew install script")
    /\ UNCHANGED <<flags, dirs, manifest, builder, i, j, essential, qtsite, disk, emsdk, attempts, pool, report>>

m_xcode ==
    /\ pc = "m_xcode"
    /\ \/ /\ pc' = "m_loop"
          /\ i' = 1
          /\ UNCHANGED abortCause
       \/ /\ Abort("xcode")
          /\ UNCHANGED i
    /\ UNCHANGED <<flags, dirs, manifest, builder, j, essential, qtsite, disk, emsdk, attempts, pool, failures, report>>

\* for dep in all_dependencies: brew install dep, a failure caught by the bare except
m_loop ==
    /\ pc = "m_loop"
    /\ IF i > Len(all_dependencies)
          THEN /\ pc' = "pip"
               /\ UNCHANGED <<i, attempts, failures>>
          ELSE /\ \E ok \in BOOLEAN :
                    /\ ok \/ CanFail
                    /\ failures' = IF ok THEN failures ELSE failures + 1
                    /\ attempts' = Log(all_dependencies[i], Attempt("brew", ok, ok))
               /\ i' = i + 1
               /\ UNCHANGED pc
    /\ UNCHANGED <<flags, dirs, manifest, builder, j, essential, qtsite, disk, emsdk, pool, report, abortCause>>

\* 'brew install qt6' when the static Qt install returned False
m_qt_fallback ==
    /\ pc = "m_qt_fallback"
    /\ \E ok \in BOOLEAN :
          /\ ok \/ CanFail
          /\ failures' = IF ok THEN failures ELSE failures + 1
          /\ attempts' = Log("qt6", Attempt("brew", ok, ok))
          /\ qt' = IF ok /\ qt = "none" THEN "system" ELSE qt
    /\ pc' = "setup_qt"
    /\ UNCHANGED <<flags, dirs, manifest, builder, i, j, essential, qtsite, vcpkgDir, vcpkgExe, tree, emsdk, pool, report, abortCause>>

\* generate_cmake_config and create_build_scripts write files.
generate_cmake_config ==
    /\ pc = "cmake_config"
    /\ pc' = "build_scripts"
    /\ UNCHANGED <<flags, dirs, manifest, builder, i, j, essential, qtsite, disk, emsdk, attempts, pool, failures, report, abortCause>>

create_build_scripts ==
    /\ pc = "build_scripts"
    /\ pc' = "verify"
    /\ UNCHANGED <<flags, dirs, manifest, builder, i, j, essential, qtsite, disk, emsdk, attempts, pool, failures, report, abortCause>>

\* ------------------------------------------------------------ verification
\* The commands verify_dependencies looks up in PATH on this host.
required_tools == IF sys = "windows" THEN {"cl", "cmake", "git"} ELSE {"cmake", "git", "gcc", "g++"}

manager_dep == detect_system(host).package_manager

\* The order in which verify_dependencies checks.
check_order == <<"cl", "cmake", "git", "gcc", "g++", "vcpkg", "brew", "apt", "Qt">>

\* checked with Qt looked for even with --no-qt.
checked_QtAlways(d) ==
    \/ d \in required_tools
    \/ d = manager_dep
    \/ d = "Qt"

\* Whether verify_dependencies checks dependency d at all.
checked(d) ==
    \/ d \in required_tools
    \/ d = manager_dep
    \/ d = "Qt" /\ ~no_qt

\* verify_missing without the package-manager check.
verify_missing_NoManager(f) == SelectSeq(check_order, LAMBDA d : checked(d) /\ d # manager_dep /\ ~f[d])

\* verify_missing with an optional package none of whose attempts succeeded counted
\* as missing.
verify_missing_Optional(f) ==
    SelectSeq(check_order, LAMBDA d :
        /\ checked(d)
        /\ \/ ~f[d]
           \/ \E r \in Range(optional_dependencies) :
                 attempts[r] # <<>> /\ \A n \in 1..Len(attempts[r]) : ~attempts[r][n].ok)

\* missing_deps, as verify_dependencies builds it from what it finds.
verify_missing(f) == SelectSeq(check_order, LAMBDA d : checked(d) /\ ~f[d])

\* Qt as verify_dependencies looks for it: the aqtinstall directory, the package
\* manager's Qt (vcpkg qtbase, Homebrew qt6, qmake), an existing installation.
qt_found ==
    \/ qt # "none"
    \/ sys = "windows" /\ \E n \in 1..Len(attempts["qtbase"]) : attempts["qtbase"][n].b = "vcpkg" /\ attempts["qtbase"][n].ok

\* main() starting the build whenever verification passed, --dev-only or not.
after_verify_IgnoreDevOnly(vo, v, d) == IF vo \/ v = "missing" THEN "done" ELSE "build"

\* main() once verify_dependencies has returned: with --verify-only it ends; else
\* 'if setup.verify_dependencies(): if not args.dev_only: setup.run_initial_build()'.
after_verify(vo, v, d) == IF vo \/ v = "missing" \/ d THEN "done" ELSE "build"

\* verify_dependencies: PATH lookups are the environment's answer at that moment;
\* vcpkg.exe and Qt are looked up on disk.
verify_dependencies ==
    /\ pc = "verify"
    /\ \E path \in SUBSET (required_tools \cup ({manager_dep} \ {"vcpkg"})) :
          /\ Cardinality((required_tools \cup ({manager_dep} \ {"vcpkg"})) \ path) <= MaxMissing
          /\ found' = [d \in Deps |->
                          CASE d = "vcpkg" -> vcpkgExe /\ sys = "windows"
                            [] d = "Qt" -> qt_found
                            [] OTHER -> d \in path]
    /\ missing_deps' = verify_missing(found')
    /\ verdict' = IF missing_deps' = <<>> THEN "ready" ELSE "missing"
    /\ pc' = after_verify(verify_only, verdict', dev_only)
    /\ UNCHANGED <<flags, dirs, manifest, builder, i, j, essential, qtsite, disk, emsdk, attempts, pool, failures, abortCause>>

\* run_initial_build: cmake configure, then cmake --build, both check=True.
run_initial_build ==
    /\ pc \in {"build", "build2"}
    /\ \/ /\ pc' = IF pc = "build" THEN "build2" ELSE "done"
          /\ UNCHANGED <<failures, abortCause>>
       \/ /\ CanFail
          /\ failures' = failures + 1
          /\ Abort(IF pc = "build" THEN "cmake configure" ELSE "cmake build")
    /\ UNCHANGED <<flags, dirs, manifest, builder, i, j, essential, qtsite, disk, emsdk, attempts, pool, report>>

\* build_precompiled_libs.py, _build_libraries_for_platform: the run is a child
\* process started as 'setup_build_environment.py --force' by subprocess.run with
\* timeout=1800; when the time is up subprocess.run kills the child, wherever it is,
\* and the builder returns False.
timeout_expired ==
    /\ force /\ ~no_qt /\ ~dev_only /\ ~verify_only
    /\ pc \notin {"done", "aborted", "killed"}
    /\ pc' = "killed"
    /\ UNCHANGED <<flags, dirs, manifest, builder, i, j, essential, qtsite, disk, emsdk, attempts, pool, failures, report, abortCause>>

\* main() with every run ending in exit status 0.
main_exit_Zero(vo, v) == 0

\* The exit status main() ends with once verify_dependencies has returned: with
\* --verify-only sys.exit(1) when it returned False; otherwise main() prints a
\* warning at most and returns.
main_exit(vo, v) == IF vo /\ v = "missing" THEN 1 ELSE 0

\* The exit status of the process: 1 after sys.exit(1) or an uncaught exception, -1
\* while it runs or when it was killed.
exit_status ==
    CASE pc = "aborted" -> 1
      [] pc = "done" -> main_exit(verify_only, verdict)
      [] OTHER -> -1

\* ---------------------------------------------------------------- packaging
\* The names in lib/ of the platform tree.
lib_dir == {f[2] : f \in {g \in tree_files : g[1] = "lib"}}

\* _check_essential_libraries, the search for one library: found when a name in lib/
\* matches one of its patterns. (For every search pattern the code joins
\* glob("*<search pattern>*") with glob("*<pattern>*"); each search pattern contains
\* its pattern, so the second glob holds every match of the first, and the platform
\* makes no difference.)
lib_found(lib, names) == \E n \in 1..Len(lib_patterns(lib)) : glob(names, lib_patterns(lib)[n]) # {}

\* The libraries _check_essential_libraries reports with "[DEBUG] Found".
found_libraries(names) == SelectSeq(essential_libraries, LAMBDA lib : lib_found(lib, names))

\* _check_essential_libraries: the list it returns.
check_essential_libraries(names) == SelectSeq(essential_libraries, LAMBDA lib : ~lib_found(lib, names))

\* The entries of the archive without the two .gitkeep entries of an empty package.
archive_entries_NoPlaceholder(p, files, unread) == {<<p, f[1], f[2]>> : f \in files \ unread}

\* The entries build_platform_package writes: every file of the tree zipf.write
\* accepts, as <platform>/<relative path>; when none was added, lib/.gitkeep and
\* include/.gitkeep.
archive_entries(p, files, unread) ==
    IF files \ unread = {}
       THEN {<<p, "lib", ".gitkeep">>, <<p, "include", ".gitkeep">>}
       ELSE {<<p, f[1], f[2]>> : f \in files \ unread}

\* The archive file once the 'with zipfile.ZipFile' block has ended: the end record
\* of a ZIP file alone takes 22 bytes.
written_package(entries) == [exists |-> TRUE, size |-> 22 + Cardinality(entries), valid |-> TRUE, entries |-> entries]

\* What is at the package path when the ZipFile block raised: nothing, an empty file,
\* or a file cut short.
FailedPackages ==
    {NoPackage,
     [exists |-> TRUE, size |-> 0, valid |-> FALSE, entries |-> {}],
     [exists |-> TRUE, size |-> 1, valid |-> FALSE, entries |-> {}]}

\* _create_package_info: every file under lib/ is counted (and taken as one byte).
create_package_info(p, triplet, names) ==
    [platform |-> p,
     triplet |-> triplet,
     version |-> "1.0.0",
     build_date |-> "now",
     library_count |-> Cardinality(names),
     total_size_bytes |-> Cardinality(names),
     total_size_mb |-> 0,
     essential_libraries |-> essential_libraries,
     description |-> "Precompiled static libraries for Lupine Engine"]

\* build_platform_package(platform, platforms[platform]). platform_dir.mkdir has no
\* parents=True and raises when thirdparty/ is not there; a file zipf.write raises on
\* is skipped with a warning; an exception in the ZipFile block makes it return
\* False; the sidecar is written outside that block.
build_platform_package ==
    /\ bpc = "build"
    /\ bpc' = "built"
    /\ IF ~platform_exists /\ ~thirdparty_exists
          THEN /\ success' = "raise"
               /\ UNCHANGED <<platform_exists, package, info_files, missing_libs>>
          ELSE /\ platform_exists' = TRUE
               /\ missing_libs' = check_essential_libraries(lib_dir)
               /\ \/ /\ package' \in FailedPackages
                     /\ success' = "False"
                     /\ UNCHANGED info_files
                  \/ /\ package' = written_package(archive_entries(platform, tree_files, unreadable))
                     /\ \/ /\ info_files' = {f \in info_files : f.platform # platform}
                                              \cup {create_package_info(platform, platforms[platform], lib_dir)}
                           /\ success' = "True"
                        \/ /\ success' = "raise"
                           /\ UNCHANGED info_files
    /\ UNCHANGED <<platform, thirdparty_exists, tree_files, unreadable, test_result, allbuild>>
    /\ UNCHANGED <<flags, dirs, manifest, pc, i, j, essential, qtsite, disk, emsdk, attempts, pool, failures, report, abortCause>>

\* has_lib and has_include of test_package: they only print a warning.
has_dir(pk, d) == \E e \in pk.entries : e[2] = d

\* test_package: the file exists, is not empty, opens as a ZIP file and lists at
\* least one name.
test_package(pk) ==
    IF ~pk.exists THEN FALSE
    ELSE IF pk.size = 0 THEN FALSE
    ELSE IF ~pk.valid THEN FALSE
    ELSE Cardinality(pk.entries) > 0

\* test_precompiled_libs.py on the package file, whatever the build returned.
run_test_package ==
    /\ bpc = "built"
    /\ bpc' = "tested"
    /\ test_result' = IF test_package(package) THEN "True" ELSE "False"
    /\ UNCHANGED <<platform, thirdparty_exists, platform_exists, tree_files, unreadable, package, info_files, success, missing_libs, allbuild>>
    /\ UNCHANGED <<flags, dirs, manifest, pc, i, j, essential, qtsite, disk, emsdk, attempts, pool, failures, report, abortCause>>

\* No run of setup_build_environment.py takes part.
SetupIdle ==
    /\ host = "Linux"
    /\ force = FALSE
    /\ no_qt = FALSE
    /\ dev_only = FALSE
    /\ verify_only = FALSE
    /\ pc = "idle"
    /\ i = 1
    /\ j = 1
    /\ essential = essential_dependencies
    /\ qtsite = "none"
    /\ vcpkgDir = FALSE
    /\ vcpkgExe = FALSE
    /\ qt = "none"
    /\ emsdk = FALSE
    /\ tree = [p \in Platforms |-> {}]
    /\ tree0 = tree
    /\ dirs = {}
    /\ dirs0 = dirs
    /\ manifest = NoManifest
    /\ attempts = [t \in Targets |-> <<>>]
    /\ poolQueue = <<>>
    /\ poolRunning = {}
    /\ completed = 0
    /\ failures = 0
    /\ found = [d \in Deps |-> FALSE]
    /\ missing_deps = <<>>
    /\ verdict = "none"
    /\ abortCause = "none"

\* The packaging of one platform, for every platform and every tree drawn from
\* TreeFiles; no run of setup_build_environment.py takes part.
PackInit ==
    /\ bpc = "build"
    /\ platform \in Platforms
    /\ thirdparty_exists \in BOOLEAN
    /\ platform_exists \in BOOLEAN
    /\ platform_exists => thirdparty_exists
    /\ tree_files \in SUBSET TreeFiles
    /\ tree_files # {} => platform_exists
    /\ unreadable \in SUBSET tree_files
    /\ Cardinality(unreadable) <= MaxUnreadable
    /\ package = NoPackage
    /\ info_files = {}
    /\ success = "none"
    /\ missing_libs = <<>>
    /\ test_result = "none"
    /\ AllIdle
    /\ SetupIdle

PackNext ==
    \/ build_platform_package
    \/ run_test_package

PackSpec == PackInit /\ [][PackNext]_vars

\* --------------------------------------------------------------- round trip
\* target_platforms of setup_cross_compilation_libraries: the triplet of each.
target_triplets ==
    [p \in Platforms |->
        CASE p = "Windows" -> "x64-windows-static"
          [] p = "Linux" -> "x64-linux"
          [] p = "Mac-OSX" -> "x64-osx"
          [] p = "Mac-ARM64" -> "arm64-osx"]

\* archive_name of setup_cross_compilation_libraries and precompiled_archive of
\* _install_windows_dependencies: the file setup asks the release for.
archive_name(triplet) == <<"lupine-libs-", triplet, ".zip">>

\* zip_ref.extractall(self.thirdparty_dir): an entry named <platform>/<dir>/<name>
\* becomes the file <dir>/<name> of thirdparty/<platform>.
extractall(entries) == [p \in Platforms |-> {<<e[2], e[3]>> : e \in {x \in entries : x[1] = p}}]

\* ------------------------------------------------------- build_all_packages
\* self.platforms.items(): the platforms in the order the dict lists them.
platform_order == <<"Windows", "Linux", "Mac-OSX", "Mac-ARM64">>

\* package_name of build_platform_package, and the name setup asks for.
package_name(triplet) == <<"lupine-libs-", triplet, ".zip">>

\* The name of the sidecar.
info_name(triplet) == <<"lupine-libs-", triplet, ".json">>

\* The sidecar of a platform, when there is one.
info_file(p, infos) == {f \in infos : f.platform = p}

\* _create_master_manifest listing every platform of self.platforms.
create_master_manifest_AllPlatforms(successful_platforms, infos) ==
    [written |-> TRUE,
     available_platforms |-> platform_order,
     packages |-> [p \in {q \in Range(successful_platforms) : info_file(q, infos) # {}} |->
                      [triplet |-> platforms[p],
                       package_file |-> package_name(platforms[p]),
                       info_file |-> info_name(platforms[p]),
                       size_mb |-> (CHOOSE f \in info_file(p, infos) : TRUE).total_size_mb]]]

\* _create_master_manifest: available_platforms is the list it is given; a platform
\* gets a packages entry when its sidecar exists.
create_master_manifest(successful_platforms, infos) ==
    [written |-> TRUE,
     available_platforms |-> successful_platforms,
     packages |-> [p \in {q \in Range(successful_platforms) : info_file(q, infos) # {}} |->
                      [triplet |-> platforms[p],
                       package_file |-> package_name(platforms[p]),
                       info_file |-> info_name(platforms[p]),
                       size_mb |-> (CHOOSE f \in info_file(p, infos) : TRUE).total_size_mb]]]

\* The trees the loop is run over: an empty one and one with every file.
AllTrees == {{}, TreeFiles}

\* The tree of a platform as the loop finds it.
PlatformTree ==
    /\ platform_exists' \in BOOLEAN
    /\ platform_exists' => thirdparty_exists
    /\ tree_files' \in AllTrees
    /\ tree_files' # {} => platform_exists'
    /\ unreadable' = {}

\* build_all_packages, one round of its loop once build_platform_package has ended:
\* the platform goes to successful_builds when the call returned True, to
\* failed_builds when it returned False or raised ('except Exception'); after the
\* last platform the master manifest is written and len(successful_builds) > 0 is
\* returned.
build_all_packages ==
    /\ bpc = "built"
    /\ bi \in 1..Len(platform_order)
    /\ successful_builds' = IF success = "True" THEN Append(successful_builds, platform) ELSE successful_builds
    /\ failed_builds' = IF success = "True" THEN failed_builds ELSE Append(failed_builds, platform)
    /\ outcome' = [outcome EXCEPT ![platform] = success]
    /\ bi' = bi + 1
    /\ IF bi < Len(platform_order)
          THEN /\ bpc' = "build"
               /\ platform' = platform_order[bi + 1]
               /\ PlatformTree
               /\ UNCHANGED <<all_result, master>>
          ELSE /\ bpc' = "returned"
               /\ master' = create_master_manifest(successful_builds', info_files)
               /\ all_result' = IF Len(successful_builds') > 0 THEN "True" ELSE "False"
               /\ UNCHANGED <<platform, platform_exists, tree_files, unreadable>>
    /\ UNCHANGED <<thirdparty_exists, package, info_files, success, missing_libs, test_result>>
    /\ UNCHANGED <<flags, dirs, manifest, pc, i, j, essential, qtsite, disk, emsdk, attempts, pool, failures, report, abortCause>>

\* build_precompiled_libs.py without --platform: build_all_packages over whatever
\* trees thirdparty/ holds.
AllInit ==
    /\ bpc = "build"
    /\ bi = 1
    /\ platform = platform_order[1]
    /\ thirdparty_exists \in BOOLEAN
    /\ platform_exists \in BOOLEAN
    /\ platform_exists => thirdparty_exists
    /\ tree_files \in AllTrees
    /\ tree_files # {} => platform_exists
    /\ unreadable = {}
    /\ package = NoPackage
    /\ info_files = {}
    /\ success = "none"
    /\ missing_libs = <<>>
    /\ test_result = "none"
    /\ successful_builds = <<>>
    /\ failed_builds = <<>>
    /\ all_result = "none"
    /\ master = NoMaster
    /\ outcome = [p \in Platforms |-> "none"]
    /\ SetupIdle

AllNext ==
    \/ build_platform_package
    \/ build_all_packages

AllSpec == AllInit /\ [][AllNext]_vars

Next ==
    \/ Construct
    \/ install_system_dependencies
    \/ w_tool
    \/ w_vcpkg
    \/ w_clone
    \/ w_bootstrap
    \/ w_fetch
    \/ install_qt
    \/ qt_static
    \/ qt_aqt
    \/ w_qt_fallback
    \/ install_vcpkg_packages_parallel
    \/ pool_start
    \/ pool_finish
    \/ pool_exit
    \/ w_integrate
    \/ m_brew
    \/ m_xcode
    \/ m_loop
    \/ m_qt_fallback
    \/ l_update
    \/ l_chunk
    \/ l_indiv
    \/ pip_python
    \/ pip_user
    \/ pip_plain
    \/ l_qt
    \/ l_qt5
    \/ setup_qt
    \/ setup_emscripten
    \/ em_install
    \/ setup_cross_compilation_libraries
    \/ generate_cmake_config
    \/ create_build_scripts
    \/ verify_dependencies
    \/ run_initial_build
    \/ timeout_expired

Spec == Init /\ [][Next]_vars

\* ------------------------------------------------------------------ claims
Managers == {"vcpkg", "apt", "brew", "pip", "choco"}

Entries(t) == 1..Len(attempts[t])

\* A requirement every attempt at which has failed, with at least one attempt
\* through a package manager.
Exhausted(r) ==
    /\ \E n \in Entries(r) : attempts[r][n].b \in Managers
    /\ \A n \in Entries(r) : ~attempts[r][n].ok

\* The dependencies that gate readiness on this host: the build tools, the package
\* manager, and Qt unless --no-qt makes it optional.
NonOptionalDeps ==
    (IF sys = "windows" THEN {"cl", "cmake", "git", "vcpkg"}
     ELSE IF sys = "macos" THEN {"cmake", "git", "gcc", "g++", "brew"}
     ELSE {"cmake", "git", "gcc", "g++", "apt"})
        \cup (IF no_qt THEN {} ELSE {"Qt"})

Status(d) == IF found[d] THEN "Present" ELSE IF d \in NonOptionalDeps THEN "Missing" ELSE "MissingButOptional"

C2_AcquisitionFailureNeverEndsRun ==
    pc = "aborted" => abortCause \in {"config", "xcode"}

\* C3: on every host, a package-manager install of a library requirement is issued
\* only after a precompiled fetch for it was attempted and failed.
C3_FetchBeforeManager ==
    \A r \in LibReqs(host) : \A n \in Entries(r) :
        attempts[r][n].b \in Managers =>
            \E m \in 1..(n - 1) : attempts[r][m].b = "fetch" /\ ~attempts[r][m].ok

\* C3 as amended: on Windows every vcpkg install (the qtbase fallback included) is
\* issued only after the fetch of the host archive was attempted first and failed;
\* on Linux and macOS the first attempt at a library requirement is the package
\* manager's, the fetch coming afterwards.
C3_FetchBeforeVcpkgOnWindows ==
    /\ \A t \in Packages : attempts[t] # <<>> => \A n \in Entries(t) :
          attempts[t][n].b = "vcpkg" =>
              /\ sys = "windows"
              /\ attempts[platform_dir] # <<>>
              /\ attempts[platform_dir][1] = Attempt("fetch", FALSE, FALSE)
              /\ (t \in LibReqs(host) => n > 1 /\ attempts[t][1] = Attempt("fetch", FALSE, FALSE))
    /\ sys \in {"linux", "macos"} =>
          \A r \in LibReqs(host) : attempts[r] # <<>> => attempts[r][1].b \in {"apt", "brew"}

\* A vcpkg install has been issued for a library requirement on Windows.
C3_Witness ==
    /\ sys = "windows"
    /\ \E r \in LibReqs(host) : \E n \in Entries(r) : attempts[r][n].b = "vcpkg"

\* C4: an install command that exits non-zero is never taken for a success.
C4_NonZeroExitReportedFailed ==
    \A t \in Packages : \A n \in Entries(t) :
        (attempts[t][n].b \in Managers /\ ~attempts[t][n].ok) => ~attempts[t][n].rep

\* The fetch of platform p's archive this step made, if it made one and it failed.
FailedFetchStep(p) ==
    /\ Len(attempts'[p]) = Len(attempts[p]) + 1
    /\ attempts'[p][Len(attempts'[p])] = Attempt("fetch", FALSE, FALSE)

\* C5: a fetch that fails leaves the dependency tree exactly as it was before the
\* attempt.
C5_FailedFetchLeavesTree ==
    [][\A p \in Platforms : FailedFetchStep(p) => tree' = tree]_vars

Count(t, b) == Cardinality({n \in Entries(t) : attempts[t][n].b = b})

C7_EveryRequirementAttempted ==
    (pc \in {"done", "aborted"} /\ ~verify_only /\ abortCause \notin {"config", "xcode"}) =>
        /\ \A r \in LibReqs(host) : attempts[r] # <<>>
        /\ \A p \in Platforms : platform_libraries_exist(p) \/ attempts[p] # <<>>

\* The libraries _install_windows_dependencies calls essential.
NonOptionalLibs == LibReqs(host) \cap Range(essential_dependencies)

\* C8: a run in which a non-optional library failed on every backend completes with
\* the verdict "not ready".
C8_ExhaustedEssentialNotReady ==
    (pc = "done" /\ verdict # "none" /\ \E r \in NonOptionalLibs : Exhausted(r)) => verdict = "missing"

LaterAborts == {"pip install aqtinstall", "aqt install-qt", "git clone emsdk", "emsdk install", "emsdk activate", "cmake configure", "cmake build"}

\* C9: an optional library that failed on every backend does not fail the run: its
\* failed install ends nothing (the run goes on to the steps after it), and the
\* verdict is what it is without it, "ready" exactly when no dependency that is not
\* optional is missing.
C9_ExhaustedOptionalHarmless ==
    (\E r \in Range(optional_dependencies) : Exhausted(r)) =>
        /\ pc = "aborted" => abortCause \in LaterAborts
        /\ verdict # "none" => (verdict = "ready" <=> \A d \in NonOptionalDeps : found[d])

\* A run found ready although an optional library failed on every backend.
C9_Witness ==
    /\ verdict = "ready"
    /\ pc = "done"
    /\ \E r \in Range(optional_dependencies) : Exhausted(r)

\* A run over, started on an empty library directory, in which the fetch of the
\* host's archive failed and the package manager then installed requirement r.
FetchFailedManagerSucceeded(r) ==
    /\ pc = "done"
    /\ Len(attempts[r]) >= 2
    /\ attempts[r][1] = Attempt("fetch", FALSE, FALSE)
    /\ attempts[r][2].b \in Managers
    /\ attempts[r][2].ok
    /\ tree0[platform_dir] = {}
    /\ r \in LibReqs(host)

\* C10: empty library directory, failed fetch, successful package-manager install:
\* the requirement is Present, the run ends ready, and the record holds exactly the
\* two attempts.
C10_TwoAttemptsAndReady ==
    pc = "done" => \A r \in Packages : FetchFailedManagerSucceeded(r) =>
        /\ Len(attempts[r]) = 2
        /\ verdict = "ready"

\* C10 as amended: in that run the record of the requirement begins with the failed
\* fetch and the successful vcpkg install, the only install of it, and ends with a
\* third attempt, the fetch of the host's archive that
\* setup_cross_compilation_libraries makes again, unless the failed fetch had
\* extracted every library before it failed; the run ends ready exactly when the
\* tools, vcpkg and Qt that verify_dependencies looks for are there.
C10_FetchInstallFetch ==
    pc = "done" => \A r \in Packages : FetchFailedManagerSucceeded(r) =>
        /\ sys = "windows"
        /\ attempts[r][2] = Attempt("vcpkg", TRUE, TRUE)
        /\ Count(r, "vcpkg") = 1
        /\ Len(attempts[r]) \in {2, 3}
        /\ Len(attempts[r]) = 3 => attempts[r][3].b = "fetch"
        /\ Len(attempts[r]) = 2 => platform_libraries_exist(platform_dir)
        /\ verdict # "none"
        /\ verdict = "ready" <=> \A d \in NonOptionalDeps : found[d]

\* Such a run, ended ready.
C10_Witness ==
    \E r \in Range(essential_dependencies) : FetchFailedManagerSucceeded(r) /\ verdict = "ready"

\* The library files of platform p were all there when the run started.
PresentBefore(p) == \A lib \in Range(essential_libs) : lib \in tree0[p]

\* C11: without --force, a platform whose library files were all present before the
\* run sees no backend invocation in the run.
C11_PresentNeverAcquired ==
    ~force => \A p \in Platforms : PresentBefore(p) => attempts[p] = <<>>

\* C12: with --force, once setup_cross_compilation_libraries has returned, every
\* platform whose library files were present before the run has been acquired again.
C12_ForceReacquiresPresent ==
    (force /\ pc = "cmake_config") => \A p \in Platforms : PresentBefore(p) => attempts[p] # <<>>

\* C13: on Windows, once the vcpkg install calls have returned, every essential
\* package has been handed to vcpkg (after a bootstrap, if vcpkg.exe was missing): none
\* is left without an install attempt because the binary is absent.
C13_MissingManagerBootstrappedAndRetried ==
    pc = "w_integrate" =>
        \A r \in Range(essential_dependencies) : \E n \in Entries(r) : attempts[r][n].b = "vcpkg"

\* C14: the bootstrap of vcpkg and of the Emscripten SDK is begun exactly when the
\* directory is absent or --force is given, only from its one place in the run, and
\* the clone never runs on an existing installation that was not deleted.
C14_BootstrapOnceOnCleanGround ==
    [][/\ (pc = "w_vcpkg" /\ pc' # "killed") => (pc' = "w_clone" <=> (~vcpkgDir \/ force))
       /\ (pc = "emscripten" /\ ~dev_only /\ pc' # "killed") => (pc' = "cross" <=> (emsdk /\ ~force))
       /\ pc' = "w_clone" => pc = "w_vcpkg"
       /\ pc' = "em_install" => pc = "emscripten"
       /\ (pc = "w_clone" /\ pc' # "killed") => ~vcpkgDir]_vars

\* C15: at every moment at most two package installs are running.
C15_AtMostTwoInstallsRunning ==
    Cardinality(poolRunning) <= 2

\* Two installs running while a third package waits for a worker.
C15_Witness ==
    /\ Cardinality(poolRunning) = 2
    /\ poolQueue # <<>>
    /\ pc \in {"pool_essential", "pool_optional"}

\* C16: no two installs of the same package are ever in flight together: two running
\* pool tasks install different packages, and installs run in the pool only, after
\* the synchronous qtbase fallback has returned and one pool at a time.
C16_SamePackageNeverConcurrent ==
    /\ \A a, b \in poolRunning : a # b => a[2] # b[2]
    /\ poolRunning # {} => pc \in {"pool_essential", "pool_optional", "killed"}
    /\ pc = "pool_optional" => \A a \in poolRunning : a[2] \in Range(optional_dependencies)

\* qtbase, installed by the synchronous fallback before, is being installed by the
\* pool next to another package.
C16_Witness ==
    /\ pc = "pool_essential"
    /\ Cardinality(poolRunning) = 2
    /\ \E a \in poolRunning : a[2] = "qtbase" /\ Count("qtbase", "vcpkg") = 1

\* The k-th submitted install has ended.
Finished(k) ==
    /\ k <= Len(packages) - Len(poolQueue)
    /\ <<k, packages[k]>> \notin poolRunning

\* C17: what the pool has recorded depends only on which installs have ended, not on
\* the order they ended in: each package whose install ended has exactly one pool
\* attempt of its own, each other package has none, and completed counts them.
C17_RecordIndependentOfCompletionOrder ==
    pc \in {"pool_essential", "pool_optional"} =>
        /\ completed = Cardinality({k \in 1..Len(packages) : Finished(k)})
        /\ \A k \in 1..Len(packages) :
              Count(packages[k], "vcpkg") =
                  (IF packages[k] = "qtbase" THEN 1 ELSE 0) + (IF Finished(k) THEN 1 ELSE 0)

\* The install submitted second has ended while the one submitted first still runs.
C17_Witness ==
    /\ pc \in {"pool_essential", "pool_optional"}
    /\ Len(packages) >= 2
    /\ Finished(2)
    /\ <<1, packages[1]>> \in poolRunning

\* C18: when the timeout ends a run while installs are in flight, the run has
\* produced its report, and every install then in flight is recorded as failed,
\* cancelled.
C18_TimeoutStillReports ==
    (pc = "killed" /\ poolRunning # {}) =>
        /\ verdict # "none"
        /\ \A task \in poolRunning :
              /\ attempts[task[2]] # <<>>
              /\ attempts[task[2]][Len(attempts[task[2]])] = Attempt("cancelled", FALSE, FALSE)

\* C19: the phases of a run follow one another in order: every presence probe (the
\* _platform_libraries_exist of setup_cross_compilation_libraries) comes before any
\* acquisition, nothing is acquired once verification has given its verdict, a run
\* that ends has not skipped verification because a command failed, and nothing
\* follows Done.
C19_PhasesInOrder ==
    [][/\ (pc = "cross" /\ i <= Len(target_platforms) /\ pc' # "killed") =>
              \A t \in Targets : attempts[t] = <<>>
       /\ verdict # "none" => (attempts' = attempts /\ tree' = tree)
       /\ pc' = "aborted" => abortCause' \in {"config", "xcode"}
       /\ pc # "done"]_vars

status_200(o) == o[1] \notin {"HTTPError", "URLError", "status"}

file_non_empty(o) == status_200(o) /\ o[1] # "empty"

extraction_complete(o) == file_non_empty(o) /\ o[1] # "corrupt" /\ o[2] = Len(essential_libs)

\* C20: _download_precompiled_libraries never raises: whatever the request, the size
\* check, the opening of the archive and the extraction do, it returns True or
\* False, and True only for status 200, a non-empty file and a complete extraction,
\* so that after a successful fetch the libraries of the platform are all there.
C20_FetchNeverRaises ==
    /\ abortCause # "download raised"
    /\ \A o \in FetchOutcomes(platform_dir) :
          /\ download_precompiled_libraries(o) \in {"True", "False"}
          /\ download_precompiled_libraries(o) = "True" =>
                (status_200(o) /\ file_non_empty(o) /\ extraction_complete(o))
    /\ \A p \in Platforms :
          (attempts[p] # <<>> /\ attempts[p][Len(attempts[p])].ok) => platform_libraries_exist(p)

\* A fetch that failed during the extraction, with files written, and the run goes on.
C20_Witness ==
    /\ pc \notin {"aborted", "killed"}
    /\ \E p \in Platforms :
          /\ attempts[p] # <<>>
          /\ ~attempts[p][Len(attempts[p])].ok
          /\ tree[p] # tree0[p]

\* --------------------------------------------------------- packaging claims
\* How often x occurs in the sequence s.
Occurrences(s, x) == Cardinality({n \in 1..Len(s) : s[n] = x})

\* _check_essential_libraries has run in this call of build_platform_package.
Checked == bpc # "build" /\ (platform_exists \/ thirdparty_exists)

\* C21: for every platform and every content of lib/, each essential library of the
\* catalog is classified exactly once: it is reported found or it is in the list of
\* missing libraries, never both and never twice, and found and missing together
\* are the whole catalog.
C21_EachLibraryClassifiedOnce ==
    LET fnd == found_libraries(lib_dir)
        mis == check_essential_libraries(lib_dir)
    IN  /\ \A lib \in Range(essential_libraries) : Occurrences(fnd \o mis, lib) = 1
        /\ Range(fnd) \cap Range(mis) = {}
        /\ Len(fnd) + Len(mis) = Len(essential_libraries)
        /\ Range(fnd) \cup Range(mis) = Range(essential_libraries)
        /\ Checked => missing_libs = mis

\* A tree in which one library was found and another is missing.
C21_Witness ==
    /\ Checked
    /\ missing_libs # <<>>
    /\ found_libraries(lib_dir) # <<>>

\* C25: the sidecar written for a package carries an isMinimal flag, true exactly
\* when no library file was found.
C25_SidecarIsMinimalFlag ==
    \A r \in info_files :
        /\ "isMinimal" \in DOMAIN r
        /\ r.isMinimal <=> (r.library_count = 0)

\* C26: build_platform_package returns True and raises nothing for every content of
\* the platform tree, an empty or missing tree included; it returns False only when
\* the writing of the archive failed.
C26_PackagingSucceedsOnAnyTree ==
    bpc # "build" =>
        /\ success \in {"True", "False"}
        /\ success = "False" => ~package.valid

\* The files in lib/ that match a pattern of a library reported found.
matched_files ==
    {f \in lib_dir : \E lib \in Range(found_libraries(lib_dir)) :
        \E n \in 1..Len(lib_patterns(lib)) : f \in glob(lib_dir, lib_patterns(lib)[n])}

\* C27: the archive of a package reported built lists at least as many entries as
\* there are library files in the tree matched by found libraries: no file of the
\* tree is dropped.
C27_NoFileDropped ==
    success = "True" => Cardinality(package.entries) >= Cardinality(matched_files)

\* C28: a package for which build_platform_package returned True passes
\* test_package, whatever the tree held: the archive exists, is not empty, opens and
\* lists at least one entry; entries under lib/ or include/ are not needed.
C28_BuiltPackagePassesTest ==
    success = "True" =>
        /\ package.exists
        /\ package.size # 0
        /\ package.valid
        /\ package.entries # {}
        /\ test_package(package)
        /\ bpc = "tested" => test_result = "True"

\* A package with neither lib/ nor include/ entries has passed the test.
C28_Witness ==
    /\ bpc = "tested"
    /\ success = "True"
    /\ test_result = "True"
    /\ ~has_dir(package, "lib")
    /\ ~has_dir(package, "include")

\* ------------------------------------------------------ claims on the run, 2
\* C22: on a system that is not Windows, macOS or Linux the run ends with the
\* configuration error of _detect_system and nothing else has happened: no directory
\* was made, no command was run, nothing was fetched or written.
C22_ConfigErrorBeforeSideEffects ==
    sys = "unsupported" =>
        /\ pc \in {"start", "aborted", "killed"}
        /\ pc = "aborted" => abortCause = "config"
        /\ dirs = dirs0
        /\ tree = tree0
        /\ ~vcpkgDir
        /\ manifest = NoManifest
        /\ failures = 0
        /\ verdict = "none"
        /\ \A t \in Targets : attempts[t] = <<>>

\* The run on an unsupported system has ended with the configuration error.
C22_Witness == sys = "unsupported" /\ pc = "aborted" /\ abortCause = "config"

\* C23: the list of requirements a run installs for a platform profile depends on the
\* profile only: whenever the essential packages are handed to the installer the list
\* is the one the profile defines, whatever the earlier steps of the run (the Qt
\* install among them) came to.
C23_RequirementsFunctionOfProfile ==
    pc \in {"w_essential", "pool_essential"} => packages = essential_dependencies

\* C24: a fetch for platform P changes the directory tree of P only: the step that
\* downloads and extracts the archive of P leaves the library files and the
\* directory of every other platform as they were.
C24_FetchChangesOwnTreeOnly ==
    [][/\ pc = "w_fetch" =>
              \A q \in Platforms \ {platform_dir} :
                  tree'[q] = tree[q] /\ (q \in dirs' <=> q \in dirs)
       /\ (pc = "cross" /\ i <= Len(target_platforms)) =>
              \A q \in Platforms \ {target_platforms[i]} :
                  tree'[q] = tree[q] /\ (q \in dirs' <=> q \in dirs)]_vars

\* setup_cross_compilation_libraries has returned.
CrossReturned ==
    \/ pc \in {"cmake_config", "build_scripts"}
    \/ pc \in {"verify", "build", "build2", "done"} /\ ~verify_only

\* C29: once setup_cross_compilation_libraries has returned, whatever the downloads
\* came to, the manifest is written and has exactly one entry for each of the four
\* target platforms, with available, library count and path; an entry that is not
\* available counts 0 libraries.
C29_ManifestCoversEveryPlatform ==
    CrossReturned =>
        /\ manifest.written
        /\ DOMAIN manifest.platforms = Platforms
        /\ \A p \in Platforms :
              /\ DOMAIN manifest.platforms[p] = {"available", "library_count", "path"}
              /\ manifest.platforms[p].path = p
              /\ manifest.platforms[p].available \in BOOLEAN
              /\ ~manifest.platforms[p].available => manifest.platforms[p].library_count = 0
              /\ manifest.platforms[p].library_count = Cardinality(tree[p])

\* A manifest with a platform that is available and one that is not, after a
\* download that failed.
C29_Witness ==
    /\ pc = "done"
    /\ ~verify_only
    /\ failures > 0
    /\ \E p, q \in Platforms :
          manifest.platforms[p].available /\ ~manifest.platforms[q].available

\* What a run with --verify-only leaves alone: nothing is installed, fetched,
\* bootstrapped, generated or built.
VerifyOnlyFrame ==
    /\ pc \in {"start", "verify", "done", "aborted"}
    /\ tree = tree0
    /\ manifest = NoManifest
    /\ failures = 0
    /\ essential = essential_dependencies
    /\ poolQueue = <<>> /\ poolRunning = {}
    /\ \A t \in Targets : attempts[t] = <<>>

\* C30: with --verify-only the run installs, fetches, bootstraps, generates and
\* builds nothing; it only runs verify_dependencies, and the exit status is 1 exactly
\* when the verification reports a missing dependency.
C30_VerifyOnlyExitIffMissing ==
    verify_only =>
        /\ VerifyOnlyFrame
        /\ exit_status # -1 => (exit_status = 1 <=> verdict = "missing")

\* C30 as amended: with --verify-only the run installs, fetches, bootstraps,
\* generates and builds nothing; on a supported system it runs verify_dependencies
\* and nothing else, and ends with exit status 1 exactly when the verification
\* reports a missing dependency; on an unsupported system it ends with exit status 1
\* before any verification.
C30_VerifyOnlyExitIffMissingOrUnsupported ==
    verify_only =>
        /\ VerifyOnlyFrame
        /\ pc = "aborted" => (sys = "unsupported" /\ abortCause = "config")
        /\ pc = "done" => verdict # "none"
        /\ exit_status # -1 =>
              (exit_status = 1 <=> (verdict = "missing" \/ sys = "unsupported"))
        /\ (exit_status # -1 /\ sys # "unsupported") =>
              (exit_status = 1 <=> verdict = "missing")

\* A --verify-only run has ended with status 1 on a missing dependency.
C30_Witness ==
    /\ verify_only
    /\ pc = "done"
    /\ verdict = "missing"
    /\ exit_status = 1

\* The requirements that stand for Qt, whichever backend installs it.
QtTargets == {"Qt", "Qt5", "qt6", "qtbase"}

\* C31: with --no-qt, on every platform and whatever the other steps come to, no Qt
\* install and no Qt setup is ever started, Qt on disk stays as it was found, and a
\* missing Qt is never reported by verify_dependencies.
C31_NoQtNeverInstallsNorMisses ==
    no_qt =>
        /\ pc \notin {"qt_static", "qt_aqt", "w_qt_fallback", "m_qt_fallback", "l_qt5"}
        /\ qtsite = "none"
        /\ qt # "aqt"
        /\ essential = essential_dependencies
        /\ \A t \in QtTargets : attempts[t] = <<>>
        /\ "Qt" \notin Range(missing_deps)
        /\ verdict # "none" =>
              (verdict = "missing" <=> \E d \in NonOptionalDeps \ {"Qt"} : ~found[d])

\* A --no-qt run on a machine without Qt has ended ready.
C31_Witness ==
    /\ no_qt
    /\ pc = "done"
    /\ ~verify_only
    /\ qt = "none"
    /\ ~found["Qt"]
    /\ verdict = "ready"

\* C32: with --dev-only the run installs the development dependencies only: no
\* optional package is installed, Emscripten is not set up, no library of another
\* target platform is set up or downloaded, and no initial build is started.
C32_DevOnlyInstallsDevelopmentOnly ==
    dev_only =>
        /\ pc \notin {"em_install", "em_activate", "build", "build2"}
        /\ \A r \in Range(optional_dependencies) : \A n \in Entries(r) : attempts[r][n].b = "fetch"
        /\ \A p \in Platforms \ {platform_dir} : attempts[p] = <<>>

\* The commands of a Qt install whose failure ends the process.
QtAborts == {"pip install aqtinstall", "aqt install-qt", "apt install qt6", "apt install qt5"}

\* C33: the Qt install is a chain of fallbacks: when the first method fails (the Qt6
\* packages on Linux, aqtinstall on Windows) the fallback (the Qt5 packages, vcpkg
\* qtbase) is attempted, and no failure of a Qt install ends the run.
C33_QtFallbackChainContinues ==
    /\ abortCause \notin QtAborts
    /\ (sys = "linux" /\ attempts["Qt"] # <<>> /\ ~attempts["Qt"][1].ok /\ pc # "l_qt5") =>
          attempts["Qt5"] # <<>>
    /\ (sys = "windows" /\ attempts["Qt"] # <<>> /\ ~attempts["Qt"][1].ok /\ pc # "w_qt_fallback") =>
          attempts["qtbase"] # <<>>

\* The positions of _install_windows_dependencies at which vcpkg installs are issued.
VcpkgInstallSteps == {"w_qt_fallback", "w_essential", "pool_essential", "w_optional", "pool_optional", "w_integrate"}

\* C34: on Windows, when the download of the precompiled archive succeeds, no vcpkg
\* install is issued at all (no Qt fallback, no essential or optional package, no
\* vcpkg integrate); when it fails, the essential packages are installed with vcpkg.
C34_VcpkgInstallsIffFetchFailed ==
    (sys = "windows" /\ attempts[platform_dir] # <<>>) =>
        /\ attempts[platform_dir][1].rep =>
              /\ pc \notin VcpkgInstallSteps
              /\ \A t \in Packages : \A n \in Entries(t) : attempts[t][n].b # "vcpkg"
        /\ (~attempts[platform_dir][1].rep /\ pc \in {"done", "aborted"}) =>
              \A r \in Range(essential_dependencies) :
                  \E n \in Entries(r) : attempts[r][n].b = "vcpkg"

\* A file of lib/ named as the platform's convention names the library.
convention_match(p, lib, names) ==
    \E n \in 1..Len(lib_patterns(lib)) : \E f \in names : Shape(f) \in search_patterns(p, lib_patterns(lib)[n])

\* C35: the platform's naming convention decides whether a library is present: an
\* essential library is reported found for a platform only if lib/ holds a file named
\* as that platform's convention names that library (.lib on Windows, lib*.a or .so
\* elsewhere); the file of another library or of another platform does not count.
C35_FoundOnlyByPlatformConvention ==
    (bpc = "built" /\ thirdparty_exists) =>
        \A n \in 1..Len(essential_libraries) :
            essential_libraries[n] \notin Range(missing_libs) =>
                convention_match(platform, essential_libraries[n], lib_dir)

\* C36: the initial build runs only after verify_dependencies returned True in the
\* same run, and never in a --dev-only run: while cmake runs, and when it has ended
\* the process, the verdict is "ready" and --dev-only was not given.
C36_BuildOnlyAfterVerified ==
    (pc \in {"build", "build2"} \/ abortCause \in {"cmake configure", "cmake build"}) =>
        /\ verdict = "ready"
        /\ missing_deps = <<>>
        /\ ~dev_only
        /\ ~verify_only

C36_Witness == pc = "build2" /\ verdict = "ready" /\ ~dev_only

\* The platforms whose build_platform_package call returned True.
Packaged == {p \in Platforms : outcome[p] = "True"}

\* C37: whatever the packaging of each platform comes to, build_all_packages tries
\* all four platforms, returns True exactly when at least one was packaged, and
\* writes a master manifest whose available_platforms are exactly the packaged
\* platforms and whose packages keys are among them.
C37_AllPlatformsTriedManifestExact ==
    bpc = "returned" =>
        /\ \A p \in Platforms : outcome[p] # "none"
        /\ \A p \in Platforms : Occurrences(successful_builds \o failed_builds, p) = 1
        /\ all_result = "True" <=> Packaged # {}
        /\ master.written
        /\ Range(master.available_platforms) = Packaged
        /\ \A p \in Packaged : Occurrences(master.available_platforms, p) = 1
        /\ DOMAIN master.packages \subseteq Range(master.available_platforms)

C37_Witness ==
    /\ bpc = "returned"
    /\ all_result = "True"
    /\ \E p, q, r \in Platforms : outcome[p] = "True" /\ outcome[q] = "False" /\ outcome[r] = "raise"
    /\ DOMAIN master.packages # {}

\* The list the last call of _install_vcpkg_packages_parallel that ran a pool was
\* given, once it has returned.
pool_list == IF pc = "w_optional" \/ dev_only THEN essential ELSE optional_dependencies

\* The results the loop has reported for a package: its vcpkg installs, less the one
\* the Qt fallback made of qtbase before it put qtbase on the list.
Reported(r) == Cardinality({n \in Entries(r) : attempts[r][n].b = "vcpkg"}) - (IF r = "qtbase" THEN 1 ELSE 0)

\* C38: _install_vcpkg_packages_parallel returns only when every submitted install
\* has finished; every package of the list is submitted once and reported once; the
\* completed counter ends at the number of packages; and no install task ends the
\* process, whatever the order the tasks finish in.
C38_PoolReturnsAfterEveryTask ==
    /\ pc \in {"pool_essential", "pool_optional"} =>
          /\ completed + Cardinality(poolRunning) + Len(poolQueue) = Len(packages)
          /\ \A t \in poolRunning : t[1] \in 1..Len(packages) /\ packages[t[1]] = t[2]
    /\ (pc \in {"w_optional", "w_integrate"} /\ vcpkgExe) =>
          /\ poolQueue = <<>>
          /\ poolRunning = {}
          /\ completed = Len(pool_list)
          /\ \A n \in 1..Len(pool_list) : Reported(pool_list[n]) = Occurrences(pool_list, pool_list[n])
    /\ pc = "aborted" => poolQueue = <<>> /\ poolRunning = {}

C38_Witness ==
    /\ pc = "w_integrate"
    /\ vcpkgExe
    /\ ~dev_only
    /\ completed = Len(optional_dependencies)
    /\ \E r \in Range(optional_dependencies) : \E n \in Entries(r) : attempts[r][n].b = "vcpkg" /\ ~attempts[r][n].ok

\* C39: builder and setup make a round trip: the archive built for a platform holds
\* every file of the platform's tree under <platform>/<relative path>, it has the
\* name setup asks for, lupine-libs-<triplet>.zip, extracting it into thirdparty/
\* puts every file back at thirdparty/<platform>/<relative path>, and host
\* detection, cross-compilation setup and the builder pair each platform with the
\* same triplet.
C39_BuilderSetupRoundTrip ==
    /\ \A p \in Platforms :
          /\ package_name(platforms[p]) = archive_name(target_triplets[p])
          /\ detect_system(p).platform_dir = p
          /\ detect_system(p).triplet = platforms[p]
          /\ detect_system(p).triplet = target_triplets[p]
    /\ (bpc # "build" /\ success = "True") =>
          /\ \A f \in tree_files : <<platform, f[1], f[2]>> \in package.entries
          /\ \A e \in package.entries : e[1] = platform
          /\ tree_files \subseteq extractall(package.entries)[platform]
          /\ \A q \in Platforms \ {platform} : extractall(package.entries)[q] = {}

====
